---- MODULE Spec2Model ----
(***************************************************************************)
(* getWordpressLinks.py: harvest the post permalinks of a WordPress site   *)
(* through three tiers (WordPress.com API, the site's own REST endpoint,   *)
(* a scrape of the paged HTML archives) and write them to post_links.csv.  *)
(*                                                                         *)
(* A Python str is a sequence of code points, so that sorted() is the      *)
(* code-point order Python uses and split/rstrip act on characters.        *)
(***************************************************************************)
EXTENDS Integers, Sequences, FiniteSets, TLC

\* ------------------------------------------------------------ characters
HASH == 35
SLASH == 47
COLON == 58
QMARK == 63

\* "https://"
HTTPS_PREFIX == <<104, 116, 116, 112, 115, 58, 47, 47>>
\* "http://"
HTTP_PREFIX == <<104, 116, 116, 112, 58, 47, 47>>

\* ---------------------------------------------------------------- bounds
\* Non-empty pages a REST endpoint serves before it must answer otherwise.
MaxRestPages == 2
\* Longest string the normalisation is applied to in NormSpec.
MaxUrlLen == 4

\* ------------------------------------------------------ program constants
\* scrape_posts_from_paged_lists(base_url, max_empty=2)
max_empty == 2
\* "if page > 2000: break"
PAGE_CEILING == 2000

\* ------------------------------------------------------- string helpers
MinOf(S) == CHOOSE x \in S : \A y \in S : x <= y

MaxOf(S) == CHOOSE x \in S : \A y \in S : y <= x

\* str.find(c) + 1: the first position of c in s, 0 when absent.
IndexOf(s, c) ==
  LET hits == {i \in 1..Len(s) : s[i] = c}
  IN IF hits = {} THEN 0 ELSE MinOf(hits)

\* s.split(c)[0]
SplitFirst(s, c) ==
  LET i == IndexOf(s, c)
  IN IF i = 0 THEN s ELSE SubSeq(s, 1, i - 1)

\* s.rstrip(c)
RStrip(s, c) ==
  LET keep == {i \in 1..Len(s) : s[i] # c}
  IN IF keep = {} THEN <<>> ELSE SubSeq(s, 1, MaxOf(keep))

\* s.startswith(p)
StartsWith(s, p) == Len(s) >= Len(p) /\ SubSeq(s, 1, Len(p)) = p

\* A buggy rstrip that removes one trailing character only.
RStripOnce(s) ==
  IF s # <<>> /\ s[Len(s)] = SLASH THEN SubSeq(s, 1, Len(s) - 1) ELSE s

\* Mutants of Normalize: no rstrip at all; one slash stripped only.
NormalizeNoStrip(link) == SplitFirst(link, HASH)

NormalizeStripOnce(link) == RStripOnce(SplitFirst(link, HASH))

\* link.split("#")[0].rstrip("/")
Normalize(link) == RStrip(SplitFirst(link, HASH), SLASH)

\* Python's str "<": code-point order, a proper prefix first.
RECURSIVE LexLessFrom(_, _, _)
LexLessFrom(a, b, i) ==
  IF i > Len(b) THEN FALSE
  ELSE IF i > Len(a) THEN TRUE
  ELSE IF a[i] # b[i] THEN a[i] < b[i]
  ELSE LexLessFrom(a, b, i + 1)

LexLess(a, b) == LexLessFrom(a, b, 1)

\* sorted(S) of a set of str.  SortFrom orders the strings of T, which
\* agree before position k and whose k-th character, if any, is in lo..hi:
\* the string that ends before k first; strings with the same k-th
\* character by the next position; others by halving the range of the k-th
\* character.  1114111 is the largest code point of a Python str.
RECURSIVE SortFrom(_, _, _, _)
SortFrom(T, k, lo, hi) ==
  IF T = {} THEN <<>>
  ELSE IF Cardinality(T) = 1 THEN <<CHOOSE x \in T : TRUE>>
  ELSE IF \E x \in T : Len(x) < k
       THEN <<CHOOSE x \in T : Len(x) < k>>
              \o SortFrom({x \in T : Len(x) >= k}, k, lo, hi)
  ELSE IF Cardinality({x[k] : x \in T}) = 1
       THEN SortFrom(T, k + 1, 0, 1114111)
  ELSE SortFrom({x \in T : x[k] <= (lo + hi) \div 2}, k,
                lo, (lo + hi) \div 2)
         \o SortFrom({x \in T : x[k] > (lo + hi) \div 2}, k,
                     (lo + hi) \div 2 + 1, hi)

Sorted(S) == SortFrom(S, 1, 0, 1114111)

\* --------------------------------------------------------- urllib.parse
IsAlpha(c) == c \in 65..90 \/ c \in 97..122

\* scheme_chars: letters, digits, "+", "-", "."
IsSchemeChar(c) == IsAlpha(c) \/ c \in 48..57 \/ c \in {43, 45, 46}

Lower(c) == IF c \in 65..90 THEN c + 32 ELSE c

\* urlsplit: the text before the first ":" is a scheme.
HasScheme(url, i) ==
  i > 1 /\ IsAlpha(url[1]) /\ \A k \in 1..(i - 1) : IsSchemeChar(url[k])

\* _splitnetloc: where the netloc of "//netloc..." ends.
NetlocEnd(rest) ==
  LET delims == {k \in 3..Len(rest) : rest[k] \in {SLASH, QMARK, HASH}}
  IN IF delims = {} THEN Len(rest) ELSE MinOf(delims) - 1

\* urlsplit: the netloc of what follows the scheme.
Netloc(rest) ==
  IF Len(rest) >= 2 /\ rest[1] = SLASH /\ rest[2] = SLASH
  THEN SubSeq(rest, 3, NetlocEnd(rest)) ELSE <<>>

\* urlsplit, given the position i of the first ":".
urlsplit_at(url, i) ==
  IF HasScheme(url, i)
  THEN [scheme |-> [k \in 1..(i - 1) |-> Lower(url[k])],
        netloc |-> Netloc(SubSeq(url, i + 1, Len(url)))]
  ELSE [scheme |-> <<>>, netloc |-> Netloc(url)]

\* up.urlsplit(url), its scheme and netloc.
urlsplit(url) == urlsplit_at(url, IndexOf(url, COLON))

\* f"{u.scheme}://{u.netloc}"
Origin(u) == u.scheme \o <<COLON, SLASH, SLASH>> \o u.netloc

\* up.urljoin(base, url) for a base without a path and a url without a
\* scheme, dot segments or empty path segments.
urljoin(base, url) ==
  IF url = <<>> THEN base
  ELSE IF Len(url) >= 2 /\ url[1] = SLASH /\ url[2] = SLASH
       THEN urlsplit(base).scheme \o <<COLON>> \o url
  ELSE IF url[1] \in {SLASH, HASH, QMARK} THEN base \o url
  ELSE base \o <<SLASH>> \o url

\* norm_site(site): (full_base_url, hostname)
norm_site(site) ==
  LET full == IF StartsWith(site, HTTP_PREFIX) \/ StartsWith(site, HTTPS_PREFIX)
              THEN site ELSE HTTPS_PREFIX \o site
      parts == urlsplit(full)
  IN [base |-> Origin(parts), host |-> parts.netloc]

\* ------------------------------------------------------------- inputs
Range(s) == {s[i] : i \in DOMAIN s}

\* sys.argv[0]: "g"
Prog == <<103>>
\* "a": a bare hostname
SiteBare == <<97>>
\* "http://a/b": a full URL with a path
SiteHttp == HTTP_PREFIX \o <<97, 47, 98>>

\* The command lines tried: no argument, one argument, two arguments.
Argvs == {<<Prog>>, <<Prog, SiteBare>>, <<Prog, SiteHttp>>,
          <<Prog, SiteBare, SiteHttp>>}

\* "https://a" + path: a permalink as the REST endpoints report it.
ApiLink(path) == HTTPS_PREFIX \o <<97>> \o path

\* The JSON pages a REST endpoint may serve (fields id, link):
\*   /x and /x#c ; /x/ and /b// ; /B and /b//
Batches ==
  { << [id |-> 1, link |-> ApiLink(<<47, 120>>)],
       [id |-> 2, link |-> ApiLink(<<47, 120, 35, 99>>)] >>,
    << [id |-> 3, link |-> ApiLink(<<47, 120, 47>>)],
       [id |-> 4, link |-> ApiLink(<<47, 98, 47, 47>>)] >>,
    << [id |-> 5, link |-> ApiLink(<<47, 66>>)],
       [id |-> 4, link |-> ApiLink(<<47, 98, 47, 47>>)] >> }

\* An <a> element: the selector of extract_links it matches ("nav": none)
\* and its href attribute (<<>>: no href, or an empty one).
Anchor(sel, href) == [sel |-> sel, href |-> href]

\* Archive pages of the small site with base URL b.
\*   PageA: b/x/ , b/x#c , and a navigation link to https://e/z
\*   PageB: /y , //e/z , #top , an anchor without href
\*   PageC: https://e/x , ftp://a/x , z , HTTPS://a/w , mailto:q
\*   PageD: a navigation link only
PageA(b) == << Anchor("bookmark", b \o <<47, 120, 47>>),
               Anchor("title", b \o <<47, 120, 35, 99>>),
               Anchor("nav", HTTPS_PREFIX \o <<101, 47, 122>>) >>

PageB == << Anchor("bookmark", <<47, 121>>),
            Anchor("more", <<47, 47, 101, 47, 122>>),
            Anchor("permalink", <<35, 116, 111, 112>>),
            Anchor("bookmark", <<>>) >>

PageC == << Anchor("title", HTTPS_PREFIX \o <<101, 47, 120>>),
            Anchor("bookmark", <<102, 116, 112, 58, 47, 47, 97, 47, 120>>),
            Anchor("more", <<122>>),
            Anchor("title", <<72, 84, 84, 80, 83, 58, 47, 47, 97, 47, 119>>),
            Anchor("bookmark", <<109, 97, 105, 108, 116, 111, 58, 113>>) >>

PageD == << Anchor("nav", HTTPS_PREFIX \o <<101, 47, 122>>) >>

\* Archive page n of the endless site: one post, whose relative permalink
\* is "/" and the character with code point 1000 + n.
Archive(n) == << Anchor("bookmark", <<47, 1000 + n>>) >>

\* A response: the request raised (kind "exc": network error, timeout), or
\* an HTTP response with its status.  REST: json says whether the body
\* parses, batch is the parsed page.  HTML: text is the page's anchors,
\* <<>> the empty body.
Raised == [kind |-> "exc", status |-> 0, json |-> FALSE, batch |-> <<>>,
           text |-> <<>>]

Http(status, json, batch, text) ==
  [kind |-> "http", status |-> status, json |-> json, batch |-> batch,
   text |-> text]

\* What a REST endpoint may answer to the request of page p.
RestResponses(w, p) ==
  IF w = "endless" THEN {Http(404, TRUE, <<>>, <<>>)}
  ELSE {Raised}
       \cup {Http(st, TRUE, <<>>, <<>>) : st \in {401, 403, 404, 500}}
       \cup {Http(200, FALSE, <<>>, <<>>), Http(200, TRUE, <<>>, <<>>)}
       \cup {Http(200, TRUE, b, <<>>) : b \in
               IF p <= MaxRestPages THEN Batches ELSE {}}

\* What the site may answer to a fetch of the scraper (form "home", "page"
\* or "paged") for page n.  The endless site lists a post on every odd
\* archive page, under /page/n/ or, every other time, under /?paged=n only.
ScrapeResponses(w, b, form, n) ==
  IF w = "endless"
  THEN IF form = "home" THEN {Http(200, TRUE, <<>>, PageD)}
       ELSE IF n % 2 = 0 THEN {Http(404, TRUE, <<>>, PageD)}
       ELSE IF form = "page" /\ n % 4 = 3 THEN {Http(200, TRUE, <<>>, <<>>)}
       ELSE {Http(200, TRUE, <<>>, Archive(n))}
  ELSE {Raised, Http(500, TRUE, <<>>, PageD), Http(200, TRUE, <<>>, <<>>)}
       \cup {Http(200, TRUE, <<>>, t) : t \in {PageA(b), PageB, PageC, PageD}}

\* ----------------------------------------------------------------- state
VARIABLES
  argv,          \* sys.argv
  world,         \* the site harvested: "small" or "endless"
  pc,            \* where the run is
  page,          \* the page counter of the tier running
  posts,         \* fetch_posts_via_*: the records accumulated
  links,         \* scrape_posts_from_paged_lists: the set of links
  empty_streak,  \* scrape_posts_from_paged_lists: consecutive empty pages
  result,        \* main: links, as harvest_all_post_links returned it
  csv,           \* post_links.csv: its rows (<<>>: not written)
  stdout,        \* the counts printed to standard output
  stderr,        \* the lines printed to standard error
  exit_code,     \* the process's exit status (-1: still running)
  outcome,       \* history: how each tier ended
  lastReq,       \* history: the last HTTP request and the status it got
  gap,           \* history: what happened since the last request
  served,        \* history: the raw links the running REST tier was served
  window,        \* history: whether each of the last pages added a link
  resultTier,    \* history: the tier whose links were returned
  norm           \* NormSpec: a string and its normalisations

vars == <<argv, world, pc, page, posts, links, empty_streak, result, csv,
          stdout, stderr, exit_code, outcome, lastReq, gap, served, window,
          resultTier, norm>>

Tiers == {"wpcom", "site", "scrape"}

NoReq == [tier |-> "none", page |-> 0, form |-> "none", status |-> 0]

NoNorm == [in |-> <<>>, once |-> <<>>, twice |-> <<>>, steps |-> 0]

base_url == norm_site(argv[2]).base

hostname == norm_site(argv[2]).host

\* ------------------------------------------------------ the REST clients
\* A wrong status list: 403 is "not applicable" for both endpoints.
NotApplicableBoth(tier) == {401, 403, 404}

\* The statuses on which a client returns []: lines 39-44 and line 66.
NotApplicable(tier) == IF tier = "wpcom" THEN {404, 401} ELSE {401, 403, 404}

\* r.raise_for_status(): HTTPError for a 4xx or 5xx status.
RaisesForStatus(status) == status >= 400 /\ status < 600

\* A client that forgets the records of the first pages.
fetch_step_forgetful(tier, resp, acc) ==
  IF resp.kind = "exc" THEN [kind |-> "raise", exc |-> "ConnectionError"]
  ELSE IF resp.status \in NotApplicable(tier)
       THEN [kind |-> "return", posts |-> <<>>]
  ELSE IF RaisesForStatus(resp.status)
       THEN [kind |-> "raise", exc |-> "HTTPError"]
  ELSE IF ~resp.json THEN [kind |-> "raise", exc |-> "JSONDecodeError"]
  ELSE IF resp.batch = <<>> THEN [kind |-> "return", posts |-> acc]
  ELSE [kind |-> "continue", posts |-> resp.batch]

\* One pass of the "while True" loop of fetch_posts_via_wpcom_api and of
\* fetch_posts_via_site_rest, given the response to requests.get: the
\* function raises, returns a list, or goes round again with more posts.
fetch_step(tier, resp, acc) ==
  IF resp.kind = "exc" THEN [kind |-> "raise", exc |-> "ConnectionError"]
  ELSE IF resp.status \in NotApplicable(tier)
       THEN [kind |-> "return", posts |-> <<>>]
  ELSE IF RaisesForStatus(resp.status)
       THEN [kind |-> "raise", exc |-> "HTTPError"]
  ELSE IF ~resp.json THEN [kind |-> "raise", exc |-> "JSONDecodeError"]
  ELSE IF resp.batch = <<>> THEN [kind |-> "return", posts |-> acc]
  ELSE [kind |-> "continue", posts |-> acc \o resp.batch]

\* ---------------------------------------------------------- the scraper
\* The hrefs the three soup.select calls collect.
Candidates(text) ==
  {text[i].href : i \in {j \in DOMAIN text : text[j].sel # "nav"}}

\* A filter that compares the host only.
SameSiteHostOnly(b, u) == u.netloc = urlsplit(b).netloc

\* Line 102 negated: f"{u.scheme}://{u.netloc}".rstrip("/") is the base URL.
SameSite(b, u) == RStrip(Origin(u), SLASH) = RStrip(b, SLASH)

\* Lines 102-104, for an absolute href: the links it adds.
keep_link(b, abs) ==
  IF SameSite(b, urlsplit(abs)) THEN {Normalize(abs)} ELSE {}

\* The body of the "for href in candidates" loop: the links one href adds.
extract_one(b, href) ==
  IF href = <<>> THEN {}
  ELSE keep_link(b, IF urlsplit(href).scheme = <<>> THEN urljoin(b, href)
                    ELSE href)

\* extract_links(html): the links it adds to the set.
extract_links(b, text) == UNION {extract_one(b, h) : h \in Candidates(text)}

\* A streak that is never reset.
NextStreakNoReset(got_any, streak) == streak + 1

\* Lines 132-135.
NextStreak(got_any, streak) == IF got_any THEN 0 ELSE streak + 1

\* After "page += 1": the safety valve of line 141 or the loop condition
\* of line 113 ends the loop.
LoopEnds(p, streak) == p > PAGE_CEILING \/ ~(streak < max_empty)

\* ------------------------------------------------------- the orchestrator
\* An except clause that names the HTTP error only.
CatchesHttpErrorOnly(exc) == exc = "HTTPError"

\* "except Exception": every exception a client raises derives from it.
Catches(exc) == exc \in {"ConnectionError", "HTTPError", "JSONDecodeError"}

\* A test that lets every tier fall through.
TierYieldsNever(p) == FALSE

\* "if wpcom_posts:" / "if site_posts:"
TierYields(p) == p # <<>>

NextTier(tier) == IF tier = "wpcom" THEN "site" ELSE "scrape"

WarnLine(tier) ==
  IF tier = "wpcom" THEN "[warn] WP.com API attempt failed"
  ELSE "[warn] Site REST attempt failed"

InfoLine == "[info] Falling back to HTML pagination scrape"

\* A writer that loses the last row.
write_csv_short(paths) ==
  << << <<117, 114, 108>> >> >> \o [i \in 1..(Len(paths) - 1) |-> <<paths[i]>>]

\* write_csv(paths): the rows of the file, each a list of fields; the
\* header row is ["url"].
write_csv(paths) ==
  << << <<117, 114, 108>> >> >> \o [i \in 1..Len(paths) |-> <<paths[i]>>]

\* r.ok
Ok(status) == ~RaisesForStatus(status)

\* The alphabet and the strings of NormSpec: "a", "/", "#".
NormStrings == UNION {[1..n -> {97, SLASH, HASH}] : n \in 0..MaxUrlLen}

\* ------------------------------------------------------------------ Init
InitRun ==
  /\ pc = "start"
  /\ page = 1
  /\ posts = <<>>
  /\ links = {}
  /\ empty_streak = 0
  /\ result = <<>>
  /\ csv = <<>>
  /\ stdout = <<>>
  /\ stderr = <<>>
  /\ exit_code = -1
  /\ outcome = [t \in Tiers |-> "pending"]
  /\ lastReq = NoReq
  /\ gap = "start"
  /\ served = {}
  /\ window = <<>>
  /\ resultTier = "none"

Init ==
  /\ \/ world = "small" /\ argv \in Argvs
     \/ world = "endless" /\ argv = <<Prog, SiteBare>>
  /\ InitRun
  /\ norm = NoNorm

\* --------------------------------------------------------------- actions
\* main, lines 180-184: the usage error.
MainUsage ==
  /\ pc = "start"
  /\ Len(argv) # 2
  /\ stderr' = stderr \o <<"Usage", "Example", "Example">>
  /\ exit_code' = 1
  /\ pc' = "usage"
  /\ UNCHANGED <<argv, world, page, posts, links, empty_streak, result, csv,
                 stdout, outcome, lastReq, gap, served, window, resultTier,
                 norm>>

\* main, lines 186-187, harvest_all_post_links, line 148, and the entry of
\* fetch_posts_via_wpcom_api, lines 33-34.
MainStart ==
  /\ pc = "start"
  /\ Len(argv) = 2
  /\ pc' = "wpcom"
  /\ page' = 1
  /\ posts' = <<>>
  /\ UNCHANGED <<argv, world, links, empty_streak, result, csv, stdout,
                 stderr, exit_code, outcome, lastReq, gap, served, window,
                 resultTier, norm>>

\* An exception nothing catches ends the run: traceback, exit status 1.
Crash(tier) ==
  /\ pc' = "crashed"
  /\ exit_code' = 1
  /\ stderr' = Append(stderr, "Traceback")
  /\ outcome' = [outcome EXCEPT ![tier] = "raised"]
  /\ UNCHANGED <<page, posts, links, empty_streak, result, served, window,
                 resultTier>>

\* harvest_all_post_links goes on to the next tier: lines 158-160, or
\* lines 166-168 and lines 84-86.
FallThrough(tier, lines, how) ==
  /\ pc' = IF NextTier(tier) = "scrape" THEN "scrape_home" ELSE NextTier(tier)
  /\ page' = 1
  /\ posts' = <<>>
  /\ links' = {}
  /\ empty_streak' = 0
  /\ served' = {}
  /\ stderr' = stderr \o lines
                 \o (IF NextTier(tier) = "scrape" THEN <<InfoLine>> ELSE <<>>)
  /\ outcome' = [outcome EXCEPT ![tier] = how]
  /\ UNCHANGED <<result, resultTier, exit_code, window>>

\* A tier's links go back to main.
ReturnLinks(tier, paths, how) ==
  /\ pc' = "write"
  /\ result' = paths
  /\ resultTier' = tier
  /\ outcome' = [outcome EXCEPT ![tier] = how]
  /\ posts' = <<>>
  /\ UNCHANGED <<stderr, exit_code, served>>

\* Lines 153-154 and 161-162: the client returned the list p.
TierReturned(tier, p) ==
  IF TierYields(p)
  THEN /\ ReturnLinks(tier, Sorted({Normalize(r.link) : r \in Range(p)}),
                      "records")
       /\ UNCHANGED <<page, links, empty_streak, window>>
  ELSE FallThrough(tier, <<>>, IF p # <<>> THEN "records" ELSE "empty")

\* Lines 155-156 and 163-164: the client raised exc.
TierRaised(tier, exc) ==
  IF Catches(exc) THEN FallThrough(tier, <<WarnLine(tier)>>, "raised")
  ELSE Crash(tier)

\* Lines 49-51 and 72-74: the page's records are kept, the next page is due
\* after the sleep.
RestContinue(p) ==
  /\ posts' = p
  /\ page' = page + 1
  /\ UNCHANGED <<pc, links, empty_streak, result, stderr, exit_code, outcome,
                 window, resultTier>>

\* What follows the response to a request of a REST client, st being what
\* the loop body makes of it.
RestResult(tier, resp, st) ==
  /\ lastReq' = [tier |-> tier, page |-> page, form |-> "rest",
                 status |-> resp.status]
  /\ gap' = IF st.kind = "continue" THEN "slept" ELSE "busy"
  /\ IF st.kind = "continue"
     THEN /\ RestContinue(st.posts)
          /\ served' = served \cup {r.link : r \in Range(resp.batch)}
     ELSE IF st.kind = "raise" THEN TierRaised(tier, st.exc)
     ELSE TierReturned(tier, st.posts)
  /\ UNCHANGED <<argv, world, csv, stdout, norm>>

\* One request of a REST client and all that follows it up to the next
\* request: the rest of the loop body, or the return to
\* harvest_all_post_links and its "if posts: return sorted(...)", or its
\* except clause, and the entry of the next tier.
RestIteration(tier) ==
  /\ pc = tier
  /\ \E resp \in RestResponses(world, page) :
       RestResult(tier, resp, fetch_step(tier, resp, posts))

\* fetch_posts_via_wpcom_api, lines 35-52, and harvest_all_post_links, lines
\* 151-156.
WpcomIteration == RestIteration("wpcom")

\* fetch_posts_via_site_rest, lines 62-75, and harvest_all_post_links, lines
\* 159-167.
SiteIteration == RestIteration("site")

\* The links after a fetch of the scraper: lines 108-109, 118-120, 127-129.
LinksAfter(resp, readable) ==
  IF readable THEN links \cup extract_links(base_url, resp.text) ELSE links

\* The history of a request of the scraper.
ScrapeRequest(form, n, resp) ==
  /\ lastReq' = [tier |-> "scrape", page |-> n, form |-> form,
                 status |-> resp.status]
  /\ UNCHANGED <<argv, world, posts, csv, stdout, served, norm>>

\* requests.get raised inside the scraper: no except clause is around it.
ScrapeRaised ==
  /\ gap' = "busy"
  /\ Crash("scrape")

\* Lines 137-144, the streak and the page counter updated: the loop ends by
\* the safety valve or by its condition, and sorted(links) is returned, or
\* the next page is due.
LoopOrReturn(L, streak, p) ==
  /\ links' = L
  /\ empty_streak' = streak
  /\ page' = p
  /\ IF LoopEnds(p, streak)
     THEN ReturnLinks("scrape", Sorted(L), "returned")
     ELSE /\ pc' = "scrape_page"
          /\ UNCHANGED <<posts, result, resultTier, outcome, stderr,
                         exit_code, served>>

\* Lines 132-144: the end of a pass of the page loop that left the links L.
EndIteration(L, got_any) ==
  /\ gap' = "slept"
  /\ window' = IF Len(window) < max_empty THEN Append(window, L # links)
               ELSE Append(Tail(window), L # links)
  /\ LoopOrReturn(L, NextStreak(got_any, empty_streak), page + 1)

\* Lines 107-113: the homepage.
HomeFetched(L) ==
  /\ gap' = "busy"
  /\ window' = <<>>
  /\ links' = L
  /\ empty_streak' = 0
  /\ page' = 1
  /\ IF 0 < max_empty
     THEN /\ pc' = "scrape_page"
          /\ UNCHANGED <<posts, result, resultTier, outcome, stderr,
                         exit_code, served>>
     ELSE ReturnLinks("scrape", Sorted(L), "returned")

ScrapeHome ==
  /\ pc = "scrape_home"
  /\ \E resp \in ScrapeResponses(world, base_url, "home", 0) :
       /\ ScrapeRequest("home", 0, resp)
       /\ IF resp.kind = "exc" THEN ScrapeRaised
          ELSE HomeFetched(LinksAfter(resp, Ok(resp.status)))

\* Lines 115-121: /page/N/ did not add a link, /?paged=N is next.
PageGaveNothing ==
  /\ gap' = "busy"
  /\ pc' = "scrape_paged"
  /\ UNCHANGED <<page, posts, links, empty_streak, result, resultTier,
                 outcome, stderr, exit_code, window>>

\* Lines 115-124, and lines 132-144 when the page added a link.
PageFetched(L) ==
  IF Cardinality(L) > Cardinality(links) THEN EndIteration(L, TRUE)
  ELSE PageGaveNothing

ScrapePage ==
  /\ pc = "scrape_page"
  /\ \E resp \in ScrapeResponses(world, base_url, "page", page) :
       /\ ScrapeRequest("page", page, resp)
       /\ IF resp.kind = "exc" THEN ScrapeRaised
          ELSE PageFetched(LinksAfter(resp, Ok(resp.status)
                                              /\ resp.text # <<>>))

\* Lines 125-144.
ScrapePaged ==
  /\ pc = "scrape_paged"
  /\ \E resp \in ScrapeResponses(world, base_url, "paged", page) :
       /\ ScrapeRequest("paged", page, resp)
       /\ IF resp.kind = "exc" THEN ScrapeRaised
          ELSE EndIteration(LinksAfter(resp, Ok(resp.status)
                                               /\ resp.text # <<>>),
                            Cardinality(LinksAfter(resp, Ok(resp.status)
                                                     /\ resp.text # <<>>))
                              > Cardinality(links))

\* main, lines 188-189: write_csv and the count printed.
MainWrite ==
  /\ pc = "write"
  /\ csv' = write_csv(result)
  /\ stdout' = Append(stdout, Len(result))
  /\ exit_code' = 0
  /\ pc' = "done"
  /\ UNCHANGED <<argv, world, page, posts, links, empty_streak, result,
                 stderr, outcome, lastReq, gap, served, window, resultTier,
                 norm>>

Next ==
  \/ MainUsage
  \/ MainStart
  \/ WpcomIteration
  \/ SiteIteration
  \/ ScrapeHome
  \/ ScrapePage
  \/ ScrapePaged
  \/ MainWrite

Spec == Init /\ [][Next]_vars

\* ------------------------------------------- the normalisation on its own
InitNorm ==
  /\ world = "small"
  /\ argv = <<Prog>>
  /\ InitRun
  /\ norm \in {[in |-> u, once |-> u, twice |-> u, steps |-> 0] :
                 u \in NormStrings}

\* The normalisation applied to a string, then to its own result.
NormApply ==
  /\ norm.steps < 2
  /\ norm' = IF norm.steps = 0
             THEN [norm EXCEPT !.once = Normalize(norm.in), !.steps = 1]
             ELSE [norm EXCEPT !.twice = Normalize(norm.once), !.steps = 2]
  /\ UNCHANGED <<argv, world, pc, page, posts, links, empty_streak, result,
                 csv, stdout, stderr, exit_code, outcome, lastReq, gap,
                 served, window, resultTier>>

NextNorm == NormApply

NormSpec == InitNorm /\ [][NextNorm]_vars

\* ---------------------------------------------------------------- claims
\* n is link with the text from the first "#" removed and then the trailing
\* slashes removed, said without Normalize: n is a prefix of link that holds
\* no "#" and does not end in "/", and what follows n in link is slashes up
\* to the end of link or up to a "#".
IsNormalOf(n, link) ==
  /\ Len(n) <= Len(link)
  /\ n = SubSeq(link, 1, Len(n))
  /\ \A i \in 1..Len(n) : n[i] # 35
  /\ (n = <<>> \/ n[Len(n)] # 47)
  /\ \E j \in Len(n)..Len(link) :
       /\ \A i \in (Len(n) + 1)..j : link[i] = 47
       /\ (j = Len(link) \/ link[j + 1] = 35)

RestTiers == {"wpcom", "site"}

NoRecords == {"empty", "raised"}

\* A request is issued in the step.
Requests == lastReq' # lastReq

\* C1: the tiers are attempted in the order WordPress.com API, site REST,
\* HTML scrape, none of them again after a later one: the site REST
\* endpoint is requested only after the WordPress.com tier yielded no
\* record or raised, the scraper fetches only after both REST tiers did, and
\* once a tier has yielded a record no request is issued any more.
C1_TierOrder ==
  [][ /\ (Requests /\ lastReq'.tier = "wpcom")
           => lastReq.tier \in {"none", "wpcom"}
      /\ (Requests /\ lastReq'.tier = "site")
           => /\ lastReq.tier \in {"wpcom", "site"}
              /\ outcome["wpcom"] \in NoRecords
      /\ (Requests /\ lastReq'.tier = "scrape")
           => /\ lastReq.tier \in {"site", "scrape"}
              /\ outcome["wpcom"] \in NoRecords
              /\ outcome["site"] \in NoRecords
      /\ (\E t \in RestTiers : outcome[t] = "records") => ~Requests
      /\ outcome["scrape"] # "pending" => ~Requests ]_vars

\* The scraper is fetching after the WordPress.com tier found nothing and
\* the site REST tier raised.
C1_Witness ==
  /\ lastReq.tier = "scrape"
  /\ lastReq.page >= 1
  /\ outcome["wpcom"] = "empty"
  /\ outcome["site"] = "raised"

\* C2: when a REST tier was served non-empty pages and then an empty page,
\* the links returned are the normalised links of all the records served,
\* each once, in ascending code-point order: none is missing, none is added.
C2_RestResultExact ==
  \A t \in RestTiers :
    (outcome[t] = "records" /\ pc \in {"write", "done"})
      => /\ resultTier = t
         /\ lastReq.tier = t /\ lastReq.status = 200
         /\ \A u \in RestTiers : (u # t => outcome[u] \in NoRecords \cup {"pending"})
         /\ \A l \in served : \E i \in DOMAIN result : IsNormalOf(result[i], l)
         /\ \A i \in DOMAIN result : \E l \in served : IsNormalOf(result[i], l)
         /\ \A i \in 1..(Len(result) - 1) : LexLess(result[i], result[i + 1])

\* The site REST tier served two pages whose links coincide once normalised.
C2_Witness ==
  /\ pc = "done"
  /\ resultTier = "site"
  /\ outcome["wpcom"] = "empty"
  /\ lastReq.page = 3
  /\ Len(result) >= 2
  /\ Cardinality(served) > Len(result)

\* C3: a run of main with one argument that completed harvesting leaves in
\* post_links.csv the header row "url" and then one row per harvested link,
\* in the harvested order, and prints the number of data rows; with no link
\* harvested the file holds the header row alone and the count is 0.
C3_CsvMatchesLinks ==
  pc = "done"
    => /\ Len(argv) = 2
       /\ exit_code = 0
       /\ Len(csv) = Len(result) + 1
       /\ csv[1] = << <<117, 114, 108>> >>
       /\ \A i \in 1..Len(result) : csv[i + 1] = <<result[i]>>
       /\ stdout = <<Len(csv) - 1>>
       /\ (result = <<>> => csv = << << <<117, 114, 108>> >> >> /\ stdout = <<0>>)

\* A run that ended with several links written.
C3_Witness ==
  /\ pc = "done"
  /\ Len(result) >= 3
  /\ Len(csv) = 4

\* C4, as claimed: a request that fails in any tier, the scraper included,
\* never ends the run abnormally.
C4_NoHardFailure ==
  (lastReq.tier \in Tiers /\ (lastReq.status = 0 \/ lastReq.status >= 500))
    => (pc # "crashed" /\ exit_code # 1)

\* C5: an exception raised in the WordPress.com tier or in the site REST
\* tier, on any page, is caught and logged to standard error, the next
\* tier is attempted, and the links returned are not those of the failed
\* tier: they are links the returning tier was served itself.
C5_RestExceptionCaught ==
  \A t \in RestTiers :
    outcome[t] = "raised"
      => /\ (IF t = "wpcom" THEN "[warn] WP.com API attempt failed"
             ELSE "[warn] Site REST attempt failed") \in Range(stderr)
         /\ IF t = "wpcom"
            THEN pc = "site" \/ outcome["site"] # "pending"
            ELSE pc = "scrape_home" \/ lastReq.tier = "scrape"
         /\ (pc = "crashed" => lastReq.tier = "scrape")
         /\ resultTier # t
         /\ (lastReq.tier = t => posts = <<>> /\ result = <<>>)
         /\ (resultTier \in RestTiers
               => \A i \in DOMAIN result :
                    \E l \in served : IsNormalOf(result[i], l))

\* The WordPress.com tier raised on its third page, after two pages of
\* records.
C5_Witness ==
  /\ outcome["wpcom"] = "raised"
  /\ lastReq.tier = "wpcom"
  /\ lastReq.page = 3
  /\ pc = "site"

\* C6: 404 and 401 make fetch_posts_via_wpcom_api, and 401, 403 and 404 make
\* fetch_posts_via_site_rest, return an empty list without raising, on
\* whichever page, the records of earlier pages dropped; a 403 from the
\* WordPress.com API raises.
C6_NotApplicable ==
  /\ (lastReq.tier = "wpcom" /\ lastReq.status \in {404, 401})
       => /\ outcome["wpcom"] = "empty"
          /\ "[warn] WP.com API attempt failed" \notin Range(stderr)
          /\ pc = "site" /\ posts = <<>> /\ result = <<>>
  /\ (lastReq.tier = "site" /\ lastReq.status \in {401, 403, 404})
       => /\ outcome["site"] = "empty"
          /\ "[warn] Site REST attempt failed" \notin Range(stderr)
          /\ pc = "scrape_home" /\ posts = <<>> /\ result = <<>>
  /\ (lastReq.tier = "wpcom" /\ lastReq.status = 403)
       => /\ outcome["wpcom"] = "raised"
          /\ "[warn] WP.com API attempt failed" \in Range(stderr)

\* The WordPress.com API answered 401 on its second page.
C6_Witness ==
  /\ lastReq.tier = "wpcom"
  /\ lastReq.page = 2
  /\ lastReq.status = 401
  /\ outcome["wpcom"] = "empty"

\* C7: every URL the scraper returns has the scheme and the host of the
\* site's base URL.
C7_SameOrigin ==
  (resultTier = "scrape" /\ pc \in {"write", "done"})
    => \A i \in DOMAIN result :
         /\ urlsplit(result[i]).scheme = urlsplit(base_url).scheme
         /\ urlsplit(result[i]).netloc = urlsplit(base_url).netloc

\* The scraper returned the links of the pages that hold relative,
\* scheme-relative, fragment-only, other-scheme and other-host hrefs.
C7_Witness ==
  /\ resultTier = "scrape"
  /\ pc = "done"
  /\ world = "small"
  /\ base_url \in Range(result)
  /\ (base_url \o <<47, 122>>) \in Range(result)

\* No "#" and no trailing "/".
NoFragmentNoSlash(u) ==
  /\ \A i \in 1..Len(u) : u[i] # 35
  /\ (u = <<>> \/ u[Len(u)] # 47)

\* C8: the normalisation leaves a URL without fragment and trailing slash
\* as it is, and applied twice it gives what it gives applied once.
C8_NormalizeIdempotent ==
  /\ (norm.steps >= 1 /\ NoFragmentNoSlash(norm.in)) => norm.once = norm.in
  /\ norm.steps >= 1 => NoFragmentNoSlash(norm.once)
  /\ norm.steps = 2 => norm.twice = norm.once

\* A string with slashes before a fragment, normalised twice.
C8_Witness ==
  /\ norm.steps = 2
  /\ Len(norm.in) = 4
  /\ Len(norm.once) = 1

\* The last max_empty (2) pages processed added no link.
WindowAllEmpty == Len(window) = 2 /\ ~window[1] /\ ~window[2]

\* The run is inside the scraper's page loop.
InLoop == pc \in {"scrape_page", "scrape_paged"}

\* What every step inside the page loop increases: the page number, and
\* within a page the fetch (/page/N/, then /?paged=N).
LoopMeasure == 2 * page + (IF pc = "scrape_paged" THEN 1 ELSE 0)

\* C9: the scraper's page loop ends, whatever the site answers: it goes on
\* only while the last 2 pages did not both come out empty, it returns only
\* when they did or when page 2000 has been processed, no page above 2000
\* is requested, and every step inside the loop leaves it or moves on to a
\* later fetch, of which there are at most two for each page up to 2000.
C9_ScrapeLoopEnds ==
  /\ [](lastReq.tier = "scrape" => lastReq.page <= 2000)
  /\ [](InLoop => page >= 1 /\ page <= 2000 /\ ~WindowAllEmpty)
  /\ [](outcome["scrape"] = "returned" => WindowAllEmpty \/ page = 2001)
  /\ [][InLoop => \/ InLoop' /\ LoopMeasure' > LoopMeasure
                  \/ pc' \in {"write", "crashed"}]_vars

\* The loop ended by the ceiling: page 2000 was processed and the last two
\* pages were not both empty.
C9_Witness ==
  /\ outcome["scrape"] = "returned"
  /\ page = 2001
  /\ lastReq.page = 2000
  /\ ~WindowAllEmpty

\* C10, as claimed: the sleep interval elapses between any two consecutive
\* requests of a run.
C10_AlwaysThrottled == [][Requests => gap # "busy"]_vars

====
